---- MODULE Spec2Model ----
(***************************************************************************)
(* Model of the Screen trait of src/src/screen.rs: the two backend         *)
(* primitives send_command / send_data and the default methods built on    *)
(* them (send_commands, send_data_bytes, cls, write).                      *)
(*                                                                         *)
(* A backend is modelled as a recorder of the bytes it accepted that may   *)
(* refuse any single primitive call with an error of its own choosing.     *)
(* A &str is its UTF-8 byte sequence; chars() decodes it.                  *)
(***************************************************************************)
EXTENDS Integers, Sequences, FiniteSets, TLC

\* ---------------------------------------------------------------- bounds
MaxWidth == 2
MaxLen == 3
\* calls made on one display, with every input and a backend that may fail
MaxCalls == 1
\* calls made on one display in the call-sequence specification
MaxSeqCalls == 2

\* ------------------------------------------------------------- constants
\* Screen<16, 1, ScreenError> for TestScreen
TestWidth == 16
\* '?' as u8
QuestionMark == 63
\* hd44780::clear_screen(), the controller's "clear display" instruction
clear_screen == 1

\* the string literal of tests::write, as code points
TestString ==
  <<116, 104, 105, 115, 32, 105, 115, 32, 118, 101, 114, 121, 32, 108, 111,
    110, 103, 32, 116, 101, 115, 116, 32, 115, 116, 114, 105, 110, 103, 32,
    116, 104, 97, 116, 32, 115, 104, 111, 117, 108, 100, 32, 98, 101, 32,
    116, 114, 117, 110, 99, 97, 116, 101, 100, 32, 98, 121, 32, 115, 99,
    114, 101, 101, 110, 32, 115, 105, 122, 101>>

\* b"this is very lon"
TestExpected ==
  <<116, 104, 105, 115, 32, 105, 115, 32, 118, 101, 114, 121, 32, 108, 111,
    110>>

\* ----------------------------------------------------------- input sets
\* code points used to build strings: ASCII 'A', the last Latin-1 code
\* point, and the first code point that does not fit a byte
Chars == {65, 255, 256}
\* bytes used for raw command / data sequences
Bytes == {clear_screen, QuestionMark}
\* errors a backend may return
Errors == {"E1", "E2"}

SeqsUpTo(S, n) == UNION {[1..k -> S] : k \in 0..n}

Strings == SeqsUpTo(Chars, MaxLen) \cup {TestString}
ByteSeqs == SeqsUpTo(Bytes, MaxLen)
Widths == (0..MaxWidth) \cup {TestWidth}

\* smaller input sets for sequences of calls
SeqStrings == SeqsUpTo({65, 256}, MaxLen)
SeqCommands == SeqsUpTo({clear_screen}, MaxLen)
SeqDataBytes == SeqsUpTo({QuestionMark}, MaxLen)

Min(a, b) == IF a < b THEN a ELSE b

\* --------------------------------------------------------------- results
Ok == [tag |-> "Ok", err |-> "-"]
Err(e) == [tag |-> "Err", err |-> e]
Pending == [tag |-> "Pending", err |-> "-"]

\* what a primitive of backend b may answer: TestScreen's error type
\* ScreenError has no values, any other backend may fail
Outcomes(b) == IF b = "TestScreen" THEN {Ok} ELSE {Ok} \cup {Err(e) : e \in Errors}

\* ------------------------------------------------------- &str and chars()
\* UTF-8 encoding of one code point (how a string literal lies in memory)
encode_utf8(c) ==
  IF c < 128 THEN <<c>>
  ELSE IF c < 2048 THEN <<192 + (c \div 64), 128 + (c % 64)>>
  ELSE IF c < 65536 THEN
    <<224 + (c \div 4096), 128 + ((c \div 64) % 64), 128 + (c % 64)>>
  ELSE <<240 + (c \div 262144), 128 + ((c \div 4096) % 64),
         128 + ((c \div 64) % 64), 128 + (c % 64)>>

RECURSIVE str(_)
str(cs) == IF cs = <<>> THEN <<>> ELSE encode_utf8(Head(cs)) \o str(Tail(cs))

\* s.bytes(): every byte taken for a character
chars_bytes(s) == s

\* s.chars(): decode the UTF-8 bytes into code points
RECURSIVE chars(_)
chars(s) ==
  IF s = <<>> THEN <<>>
  ELSE LET b == s[1] IN
    IF b < 128 THEN <<b>> \o chars(SubSeq(s, 2, Len(s)))
    ELSE IF b < 224 THEN
      <<(b - 192) * 64 + (s[2] - 128)>> \o chars(SubSeq(s, 3, Len(s)))
    ELSE IF b < 240 THEN
      <<(b - 224) * 4096 + (s[2] - 128) * 64 + (s[3] - 128)>>
        \o chars(SubSeq(s, 4, Len(s)))
    ELSE
      <<(b - 240) * 262144 + (s[2] - 128) * 4096 + (s[3] - 128) * 64
          + (s[4] - 128)>> \o chars(SubSeq(s, 5, Len(s)))

\* ---------------------------------------------------- the write pipeline
take_short(cs, n) == SubSeq(cs, 1, Min(IF n > 0 THEN n - 1 ELSE 0, Len(cs)))

\* .take(WIDTH)
take(cs, n) == SubSeq(cs, 1, Min(n, Len(cs)))

replace_wrapping(c) == c

\* |c| if (c as u32) < 256 { c } else { '?' }
replace(c) == IF c < 256 THEN c ELSE QuestionMark

\* .map(...)
map(cs) == [i \in 1..Len(cs) |-> replace(cs[i])]

\* c as u8
as_u8(c) == c % 256

\* .fold(0, |i, c| { string_buf[i] = c as u8; i + 1 })
RECURSIVE fold(_, _, _)
fold(cs, i, string_buf) ==
  IF cs = <<>> THEN [len |-> i, string_buf |-> string_buf]
  ELSE fold(Tail(cs), i + 1, [string_buf EXCEPT ![i + 1] = as_u8(Head(cs))])

\* a display of width 0 handled as one column wide
line_buffer_min1(s, W) ==
  LET V == IF W = 0 THEN 1 ELSE W
      r == fold(map(take(chars(s), V)), 0, [i \in 1..V |-> 0])
  IN SubSeq(r.string_buf, 1, r.len)

\* let mut string_buf = [0; WIDTH]; let len = ...; &string_buf[..len]
line_buffer(s, W) ==
  LET r == fold(map(take(chars(s), W)), 0, [i \in 1..W |-> 0])
  IN SubSeq(r.string_buf, 1, r.len)

\* ------------------------------------------------------------------ state
VARIABLES
  backend,      \* the implementer of the trait: "TestScreen" or "Faulty"
  WIDTH,        \* const generic WIDTH of the display type
  commands,     \* command bytes the backend accepted, over all calls
  data,         \* data bytes the backend accepted, over all calls
  pc,           \* "idle", or the batched send whose loop is running
  op,           \* the default method called last
  arg,          \* its argument (code points for write, bytes for a batch)
  buf,          \* the slice the running loop iterates over
  idx,          \* position of the running loop in buf (1-based)
  trace,        \* primitive invocations made by the call, in order
  result,       \* what the call returned
  ncalls,       \* number of calls made
  expCommands,  \* command bytes the calls so far emit on a fresh display
  expData,      \* data bytes the calls so far emit on a fresh display
  failed        \* some primitive has failed since construction

vars == <<backend, WIDTH, commands, data, pc, op, arg, buf, idx, trace, result,
          ncalls, expCommands, expData, failed>>

\* bytes one call emits on a fresh display that never fails
FreshCommands(o, a) ==
  IF o = "cls" THEN <<clear_screen>>
  ELSE IF o = "send_commands" THEN a
  ELSE <<>>

FreshData(o, a, W) ==
  IF o = "send_data_bytes" THEN a
  ELSE IF o = "write" THEN
    [i \in 1..Min(W, Len(a)) |-> IF a[i] < 256 THEN a[i] ELSE QuestionMark]
  ELSE <<>>

Init ==
  /\ backend \in {"TestScreen", "Faulty"}
  /\ WIDTH \in Widths
  /\ commands = <<>>
  /\ data = <<>>
  /\ pc = "idle"
  /\ op = "none"
  /\ arg = <<>>
  /\ buf = <<>>
  /\ idx = 1
  /\ trace = <<>>
  /\ result = Pending
  /\ ncalls = 0
  /\ expCommands = <<>>
  /\ expData = <<>>
  /\ failed = FALSE

\* ------------------------------------------------------------- primitives
\* self.send_command(command) as the next invocation after those of tr,
\* the backend answering with outcome o
send_command(tr, command, o) ==
  /\ trace' = Append(tr, [prim |-> "send_command", byte |-> command, res |-> o])
  /\ commands' = IF o = Ok THEN Append(commands, command) ELSE commands
  /\ failed' = (failed \/ o # Ok)
  /\ UNCHANGED data

\* self.send_data(data) as the next invocation after those of tr,
\* the backend answering with outcome o
send_data(tr, byte, o) ==
  /\ trace' = Append(tr, [prim |-> "send_data", byte |-> byte, res |-> o])
  /\ data' = IF o = Ok THEN Append(data, byte) ELSE data
  /\ failed' = (failed \/ o # Ok)
  /\ UNCHANGED commands

\* entry of a default method: bookkeeping of the call
Enter(o, a) ==
  /\ pc = "idle"
  /\ ncalls' = ncalls + 1
  /\ op' = o
  /\ arg' = a
  /\ expCommands' = expCommands \o FreshCommands(o, a)
  /\ expData' = expData \o FreshData(o, a, WIDTH)
  /\ UNCHANGED <<backend, WIDTH>>

\* ---------------------------------------------------------- send_commands
SendCommands(cmds) ==
  /\ Enter("send_commands", cmds)
  /\ pc' = "send_commands"
  /\ buf' = cmds
  /\ idx' = 1
  /\ trace' = <<>>
  /\ result' = Pending
  /\ UNCHANGED <<commands, data, failed>>

SendCommandsLoop_reverse ==
  /\ pc = "send_commands"
  /\ idx <= Len(buf)
  /\ \E o \in Outcomes(backend) :
       /\ send_command(trace, buf[Len(buf) - idx + 1], o)
       /\ IF o = Ok
          THEN /\ idx' = idx + 1
               /\ UNCHANGED <<pc, result>>
          ELSE /\ result' = o
               /\ pc' = "idle"
               /\ UNCHANGED idx
  /\ UNCHANGED <<backend, WIDTH, op, arg, buf, ncalls, expCommands, expData>>

SendCommandsLoop_continue ==
  /\ pc = "send_commands"
  /\ idx <= Len(buf)
  /\ \E o \in Outcomes(backend) :
       /\ send_command(trace, buf[idx], o)
       /\ idx' = idx + 1
       /\ UNCHANGED <<pc, result>>
  /\ UNCHANGED <<backend, WIDTH, op, arg, buf, ncalls, expCommands, expData>>

\* for command in commands { self.send_command(*command)?; }
SendCommandsLoop ==
  /\ pc = "send_commands"
  /\ idx <= Len(buf)
  /\ \E o \in Outcomes(backend) :
       /\ send_command(trace, buf[idx], o)
       /\ IF o = Ok
          THEN /\ idx' = idx + 1
               /\ UNCHANGED <<pc, result>>
          ELSE /\ result' = o
               /\ pc' = "idle"
               /\ UNCHANGED idx
  /\ UNCHANGED <<backend, WIDTH, op, arg, buf, ncalls, expCommands, expData>>

\* Ok(()) after the loop
SendCommandsReturn ==
  /\ pc = "send_commands"
  /\ idx > Len(buf)
  /\ result' = Ok
  /\ pc' = "idle"
  /\ UNCHANGED <<backend, WIDTH, commands, data, op, arg, buf, idx, trace, ncalls,
                 expCommands, expData, failed>>

\* -------------------------------------------------------- send_data_bytes
SendDataBytes(bytes) ==
  /\ Enter("send_data_bytes", bytes)
  /\ pc' = "send_data_bytes"
  /\ buf' = bytes
  /\ idx' = 1
  /\ trace' = <<>>
  /\ result' = Pending
  /\ UNCHANGED <<commands, data, failed>>

SendDataBytesLoop_command ==
  /\ pc = "send_data_bytes"
  /\ idx <= Len(buf)
  /\ \E o \in Outcomes(backend) :
       /\ send_command(trace, buf[idx], o)
       /\ IF o = Ok
          THEN /\ idx' = idx + 1
               /\ UNCHANGED <<pc, result>>
          ELSE /\ result' = o
               /\ pc' = "idle"
               /\ UNCHANGED idx
  /\ UNCHANGED <<backend, WIDTH, op, arg, buf, ncalls, expCommands, expData>>

SendDataBytesLoop_continue ==
  /\ pc = "send_data_bytes"
  /\ idx <= Len(buf)
  /\ \E o \in Outcomes(backend) :
       /\ send_data(trace, buf[idx], o)
       /\ idx' = idx + 1
       /\ UNCHANGED <<pc, result>>
  /\ UNCHANGED <<backend, WIDTH, op, arg, buf, ncalls, expCommands, expData>>

\* for byte in data { self.send_data(*byte)?; }
SendDataBytesLoop ==
  /\ pc = "send_data_bytes"
  /\ idx <= Len(buf)
  /\ \E o \in Outcomes(backend) :
       /\ send_data(trace, buf[idx], o)
       /\ IF o = Ok
          THEN /\ idx' = idx + 1
               /\ UNCHANGED <<pc, result>>
          ELSE /\ result' = o
               /\ pc' = "idle"
               /\ UNCHANGED idx
  /\ UNCHANGED <<backend, WIDTH, op, arg, buf, ncalls, expCommands, expData>>

\* Ok(()) after the loop
SendDataBytesReturn ==
  /\ pc = "send_data_bytes"
  /\ idx > Len(buf)
  /\ result' = Ok
  /\ pc' = "idle"
  /\ UNCHANGED <<backend, WIDTH, commands, data, op, arg, buf, idx, trace, ncalls,
                 expCommands, expData, failed>>

\* -------------------------------------------------------------------- cls
Cls_data ==
  /\ Enter("cls", <<>>)
  /\ \E o \in Outcomes(backend) :
       /\ send_data(<<>>, clear_screen, o)
       /\ result' = o
  /\ UNCHANGED <<pc, buf, idx>>

\* self.send_command(hd44780::clear_screen())
Cls ==
  /\ Enter("cls", <<>>)
  /\ \E o \in Outcomes(backend) :
       /\ send_command(<<>>, clear_screen, o)
       /\ result' = o
  /\ UNCHANGED <<pc, buf, idx>>

\* ------------------------------------------------------------------ write
\* the line continues after the data bytes already on the display
Write_cursor(s) ==
  /\ Enter("write", s)
  /\ pc' = "send_data_bytes"
  /\ buf' = line_buffer(str(s), IF Len(data) < WIDTH THEN WIDTH - Len(data) ELSE 0)
  /\ idx' = 1
  /\ trace' = <<>>
  /\ result' = Pending
  /\ UNCHANGED <<commands, data, failed>>

\* fill the line buffer, then self.send_data_bytes(&string_buf[..len])
Write(s) ==
  /\ Enter("write", s)
  /\ pc' = "send_data_bytes"
  /\ buf' = line_buffer(str(s), WIDTH)
  /\ idx' = 1
  /\ trace' = <<>>
  /\ result' = Pending
  /\ UNCHANGED <<commands, data, failed>>

\* ------------------------------------------------------------------- spec
\* one display, every input, a backend that may fail
Next ==
  \/ \E cmds \in ByteSeqs : ncalls < MaxCalls /\ SendCommands(cmds)
  \/ SendCommandsLoop
  \/ SendCommandsReturn
  \/ \E bytes \in ByteSeqs : ncalls < MaxCalls /\ SendDataBytes(bytes)
  \/ SendDataBytesLoop
  \/ SendDataBytesReturn
  \/ ncalls < MaxCalls /\ Cls
  \/ \E s \in Strings : ncalls < MaxCalls /\ Write(s)

Spec == Init /\ [][Next]_vars

\* sequences of calls on one TestScreen
InitSeq ==
  /\ Init
  /\ backend = "TestScreen"
  /\ WIDTH \in 0..MaxWidth

NextSeq ==
  \/ \E cmds \in SeqCommands : ncalls < MaxSeqCalls /\ SendCommands(cmds)
  \/ SendCommandsLoop
  \/ SendCommandsReturn
  \/ \E bytes \in SeqDataBytes : ncalls < MaxSeqCalls /\ SendDataBytes(bytes)
  \/ SendDataBytesLoop
  \/ SendDataBytesReturn
  \/ ncalls < MaxSeqCalls /\ Cls
  \/ \E s \in SeqStrings : ncalls < MaxSeqCalls /\ Write(s)

SpecSeq == InitSeq /\ [][NextSeq]_vars

\* ----------------------------------------------------------------- claims
\* the invocations of primitive p made by the call
Invocations(p) == SelectSeq(trace, LAMBDA t : t.prim = p)

\* no primitive invoked by the call has failed
NoFailure == \A i \in 1..Len(trace) : trace[i].res = Ok

\* the byte the display is to receive for the character c
Sanitized(c) == IF c < 256 THEN c ELSE QuestionMark

\* the last n elements of q
Last(q, n) == SubSeq(q, Len(q) - n + 1, Len(q))

\* C1: write(S) of a string of more than WIDTH characters, on a backend that
\* does not fail, invokes send_data exactly WIDTH times, the i-th byte being
\* the sanitized byte of the i-th character, and never invokes send_command;
\* on the 16 column test display the test string gives b"this is very lon".
C1_WriteTruncates ==
  (op = "write" /\ Len(arg) > WIDTH /\ NoFailure) =>
    /\ Len(trace) <= WIDTH
    /\ \A i \in 1..Len(trace) :
         /\ trace[i].prim = "send_data"
         /\ trace[i].byte = Sanitized(arg[i])
    /\ pc = "idle" =>
         /\ Len(trace) = WIDTH
         /\ (WIDTH = TestWidth /\ arg = TestString) =>
              /\ [i \in 1..Len(trace) |-> trace[i].byte] = TestExpected
              /\ ncalls = 1 => (data = TestExpected /\ commands = <<>>)

C1_Witness ==
  /\ pc = "idle" /\ op = "write" /\ result = Ok
  /\ WIDTH >= 2 /\ Len(arg) > WIDTH
  /\ arg[1] # arg[2]

C3_WriteSubstitutes ==
  op = "write" =>
    /\ Len(trace) <= Min(WIDTH, Len(arg))
    /\ \A p \in 1..Len(trace) :
         /\ trace[p].prim = "send_data"
         /\ arg[p] >= 256 => trace[p].byte = QuestionMark
         /\ arg[p] < 256 => trace[p].byte = arg[p]
    /\ (pc = "idle" /\ NoFailure) => Len(trace) = Min(WIDTH, Len(arg))

C3_Witness ==
  /\ pc = "idle" /\ op = "write" /\ result = Ok
  /\ WIDTH = 2 /\ Len(arg) = 3
  /\ arg[1] >= 256 /\ arg[2] < 256

\* C4: when the primitive fails on the k-th byte of send_commands or
\* send_data_bytes, bytes 1..k-1 have been sent successfully in order, byte k
\* has been tried once, no later byte is tried, and the call returns the
\* failure of the primitive.
C4_BatchShortCircuit ==
  op \in {"send_commands", "send_data_bytes"} =>
    LET prim == IF op = "send_commands" THEN "send_command" ELSE "send_data"
    IN \A k \in 1..Len(trace) :
         trace[k].res # Ok =>
           /\ k = Len(trace)
           /\ k <= Len(arg)
           /\ pc = "idle"
           /\ result = trace[k].res
           /\ \A i \in 1..k :
                /\ trace[i].prim = prim
                /\ trace[i].byte = arg[i]
                /\ i < k => trace[i].res = Ok

C4_Witness ==
  /\ pc = "idle" /\ op = "send_commands" /\ result = Err("E2")
  /\ Len(arg) = 3 /\ Len(trace) = 2

\* C5: send_commands(C) on a backend that does not fail invokes send_command
\* once per byte of C, in order, never send_data, and returns success.
C5_SendCommands ==
  (op = "send_commands" /\ NoFailure) =>
    /\ Len(trace) <= Len(arg)
    /\ \A i \in 1..Len(trace) :
         trace[i] = [prim |-> "send_command", byte |-> arg[i], res |-> Ok]
    /\ pc = "idle" =>
         /\ Len(trace) = Len(arg)
         /\ result = Ok
         /\ Last(commands, Len(arg)) = arg

C5_Witness ==
  /\ pc = "idle" /\ op = "send_commands" /\ result = Ok
  /\ Len(arg) >= 2 /\ arg[1] # arg[2]

\* C6: send_data_bytes(D) on a backend that does not fail invokes send_data
\* once per byte of D, in order, never send_command, and returns success.
C6_SendDataBytes ==
  (op = "send_data_bytes" /\ NoFailure) =>
    /\ Len(trace) <= Len(arg)
    /\ \A i \in 1..Len(trace) :
         trace[i] = [prim |-> "send_data", byte |-> arg[i], res |-> Ok]
    /\ pc = "idle" =>
         /\ Len(trace) = Len(arg)
         /\ result = Ok
         /\ Last(data, Len(arg)) = arg

C6_Witness ==
  /\ pc = "idle" /\ op = "send_data_bytes" /\ result = Ok
  /\ Len(arg) >= 2 /\ arg[1] # arg[2]

\* C7: cls() invokes send_command once, with hd44780::clear_screen(), never
\* send_data, and returns what that send returned.
C7_Cls ==
  op = "cls" =>
    /\ pc = "idle"
    /\ Len(trace) = 1
    /\ trace[1].prim = "send_command"
    /\ trace[1].byte = clear_screen
    /\ result = trace[1].res
    /\ (ncalls = 1 /\ result = Ok) => (commands = <<clear_screen>> /\ data = <<>>)

C7_Witness ==
  /\ op = "cls" /\ result = Err("E1")

\* C8: when send_data fails on the k-th byte of the line buffer of write(S),
\* write returns that error, the first k-1 buffer bytes have been sent as
\* data, the others are never tried, no byte is tried twice and no command
\* is sent.
C8_WriteShortCircuit ==
  op = "write" =>
    \A k \in 1..Len(trace) :
      trace[k].res # Ok =>
        /\ k = Len(trace)
        /\ k <= Min(WIDTH, Len(arg))
        /\ pc = "idle"
        /\ result = trace[k].res
        /\ \A i \in 1..k :
             /\ trace[i].prim = "send_data"
             /\ trace[i].byte = Sanitized(arg[i])
             /\ i < k => trace[i].res = Ok
        /\ Len(data) >= k - 1
        /\ Last(data, k - 1) = [i \in 1..(k - 1) |-> Sanitized(arg[i])]

C8_Witness ==
  /\ pc = "idle" /\ op = "write" /\ result = Err("E1")
  /\ Len(trace) = 2 /\ Len(trace) < Min(WIDTH, Len(arg))

\* C9: on a display of WIDTH 0, write(S) invokes no primitive and returns
\* success, and cls() still invokes send_command once with the clear command.
C9_ZeroWidth ==
  WIDTH = 0 =>
    /\ op = "write" =>
         /\ trace = <<>>
         /\ pc = "idle" => result = Ok
    /\ op = "cls" =>
         /\ Len(trace) = 1
         /\ trace[1].prim = "send_command"
         /\ trace[1].byte = clear_screen

C9_Witness ==
  /\ WIDTH = 0 /\ pc = "idle" /\ op = "write" /\ Len(arg) > 0
  /\ backend = "Faulty"

\* C10: after any sequence of calls on a recording backend that does not
\* fail, the recorded command stream and data stream are the concatenation,
\* in call order, of what each call emits on a fresh display, which depends
\* on the call's argument and WIDTH only.
C10_Memoryless ==
  (pc = "idle" /\ ~failed) => (commands = expCommands /\ data = expData)

C10_Witness ==
  /\ pc = "idle" /\ ncalls = 2 /\ op = "write"
  /\ WIDTH > 0 /\ Len(arg) > WIDTH
  /\ Len(data) = 2 * WIDTH

====
